---- MODULE Spec2Model ----
(***************************************************************************)
(* State-machine model of the ClickUp MCP gateway:                         *)
(*   - src/src/mcp/router.ts     the two transports and the session store  *)
(*   - src/src/clickup/client.ts the upstream adapter (request)            *)
(*   - src/unnamed/part_003      the latest client (lines 1-333) and the   *)
(*                               latest tool server (lines 749-1249)       *)
(* The MCP SDK and Express are libraries outside the repository: a call    *)
(* into them is modelled by the outcomes it can have (resolve or reject).  *)
(* Texts are sequences of parts: the literal pieces of a template string.  *)
(***************************************************************************)
EXTENDS Integers, Sequences, FiniteSets, TLC

\* ------------------------------------------------------------- bounds
\* Streaming connections (GET /sse) opened in one run.
MaxSessions == 2
\* Requests a session may have in flight upstream at once.
MaxInflight == 1
\* Stateless exchanges (GET or POST /mcp) served in one run.
MaxExchanges == 2

Conns == 1..MaxSessions
Exchanges == 1..MaxExchanges

\* ------------------------------------------------------ JS value helpers
\* The query parameter when the client sends none (req.query.sessionId is undefined).
NoParam == "<absent>"
\* Own-property names every plain object inherits from Object.prototype:
\* sseTransports is created as {} (router.ts:14), so a property read of one of
\* these names yields the inherited member, not undefined.
ObjectPrototypeKeys == {"constructor"}

\* A faulty variant of ObjectSet: the write is lost.
ObjectSetLost(obj, key, value) == obj

\* A faulty variant of ObjectSet: the write replaces the whole object.
ObjectSetReplacing(obj, key, value) == (key :> value)

\* obj[key] = value on a plain object used as a map.
ObjectSet(obj, key, value) == (key :> value) @@ obj

\* delete obj[key].
ObjectDelete(obj, key) == [k \in DOMAIN obj \ {key} |-> obj[k]]

\* obj[key] read: an own entry, an inherited member, or undefined.
ObjectGet(obj, key) ==
    IF key \in DOMAIN obj THEN [kind |-> "transport", conn |-> obj[key]]
    ELSE IF key \in ObjectPrototypeKeys THEN [kind |-> "inherited", conn |-> 0]
    ELSE [kind |-> "undefined", conn |-> 0]

\* randomUUID() of the n-th transport constructed: a fresh identifier.
SessionIdOf(n) == "uuid-" \o ToString(n)

\* String.prototype.trim on the credentials, ids and names the model draws.
Trim(s) ==
    IF s \in {"", " ", "  "} THEN ""
    ELSE IF s = " 86c6p1ach " THEN "86c6p1ach"
    ELSE IF s = " Sub " THEN "Sub"
    ELSE s

\* A faulty variant of Slice: nothing is cut off.
SliceAll(s, n) == s

\* Array.prototype.slice(0, n) on a sequence of characters.
Slice(s, n) == SubSeq(s, 1, IF Len(s) < n THEN Len(s) ELSE n)

\* ------------------------------------------------------ upstream adapter
\* body.slice(0, 200) in request (client.ts:44).
BodySliceLen == 200

\* What a function of the client hands its caller: a returned value or a
\* thrown one.  tag "ok" is a return; any other tag is the class of the
\* thrown error (ClickUpApiError carries statusCode and code).
\* calls counts the fetch calls made on the way.
Returned(v) ==
    [tag |-> "ok", message |-> <<>>, statusCode |-> -1, code |-> "", value |-> v,
     calls |-> 0]

ClickUpApiError(message, statusCode, code) ==
    [tag |-> "ClickUpApiError", message |-> message, statusCode |-> statusCode,
     code |-> code, value |-> "undefined", calls |-> 0]

Thrown(name, message) ==
    [tag |-> name, message |-> message, statusCode |-> -1, code |-> "",
     value |-> "undefined", calls |-> 0]

\* A faulty variant of Fetched: the call is issued a second time.
FetchedTwice(out) == [out EXCEPT !.calls = @ + 2]

\* The outcome of a step that awaited one fetch.
Fetched(out) == [out EXCEPT !.calls = @ + 1]

\* A faulty variant of GetToken: the value is not trimmed.
GetTokenUntrimmed(token) ==
    IF token = ""
    THEN ClickUpApiError(<<"CLICKUP_TOKEN is not set">>, 0, "NO_TOKEN")
    ELSE Returned(token)

\* getToken: the trimmed credential, or the NO_TOKEN error.
GetToken(token) ==
    IF Trim(token) = ""
    THEN ClickUpApiError(<<"CLICKUP_TOKEN is not set">>, 0, "NO_TOKEN")
    ELSE Returned(Trim(token))

\* res.ok of the fetch Response.
ResOk(status) == status >= 200 /\ status <= 299

\* A faulty variant of ErrorMessage: the 429 branch is missing.
ErrorMessageWithout429(resp) ==
    IF resp.status = 401 THEN <<"ClickUp token invalid or expired">>
    ELSE IF resp.status = 403 THEN <<"No access to this resource">>
    ELSE <<"ClickUp API error: ", ToString(resp.status), " ", resp.statusText>>

\* The message request builds for a non-2xx response (client.ts:39-44).
ErrorMessage(resp) ==
    IF resp.status = 401 THEN <<"ClickUp token invalid or expired">>
    ELSE IF resp.status = 403 THEN <<"No access to this resource">>
    ELSE IF resp.status = 429 THEN <<"Rate limited; retry later">>
    ELSE <<"ClickUp API error: ", ToString(resp.status), " ", resp.statusText>>
         \o (IF resp.body # <<>> THEN <<" - ">> \o Slice(resp.body, BodySliceLen)
             ELSE <<>>)

\* request(path, options) given the credential and what the network answers.
\* resp.kind "network" is fetch rejecting; resp.json is what res.json() decodes
\* from the body when resp.jsonValid, and res.json() throws otherwise.
Request(token, resp) ==
    IF GetToken(token).tag # "ok" THEN GetToken(token)
    ELSE IF resp.kind = "network"
         THEN Fetched(Thrown("TypeError", <<"fetch failed">>))
    ELSE IF ~ResOk(resp.status)
         THEN Fetched(ClickUpApiError(ErrorMessage(resp), resp.status, ""))
    ELSE IF resp.contentLength0 \/ resp.status = 204
         THEN Fetched(Returned("undefined"))
    ELSE IF ~resp.jsonValid
         THEN Fetched(Thrown("SyntaxError", <<"Unexpected end of JSON input">>))
    ELSE Fetched(Returned(resp.json))

\* ------------------------------------------------------ tool server
\* The tools createMcpServer registers, in registration order (part_003:788-1246).
ToolList ==
    << "get_clickup_task", "get_clickup_task_context", "get_clickup_task_comments",
       "create_clickup_comment", "update_clickup_comment", "delete_clickup_comment",
       "get_clickup_subtasks", "create_clickup_task", "create_clickup_subtask",
       "update_clickup_task", "delete_clickup_task", "get_clickup_tasks",
       "get_clickup_tasks_by_list_name", "list_clickup_lists_in_space",
       "list_clickup_lists", "list_clickup_folders", "list_clickup_spaces",
       "list_clickup_teams" >>

ToolNames == {ToolList[i] : i \in 1..Len(ToolList)}

\* A faulty variant of RegisterTool: a registration replaces the earlier ones.
RegisterToolReplacing(registry, name) == {name}

\* server.registerTool(name, ...): the name is added to the server's tools.
RegisterTool(registry, name) == registry \cup {name}

RECURSIVE RegisterAll(_, _)
RegisterAll(registry, names) ==
    IF names = <<>> THEN registry
    ELSE RegisterAll(RegisterTool(registry, Head(names)), Tail(names))

\* createMcpServer(): a new McpServer on which the tools are registered in
\* source order; the tools of the server it returns.
CreateMcpServer == RegisterAll({}, ToolList)

\* Tools whose handler is one client function making one upstream call.
SingleCallTools ==
    ToolNames \ {"create_clickup_subtask", "get_clickup_tasks_by_list_name",
                 "list_clickup_lists_in_space"}

\* toolResultText / toolResultError (part_003:774-780).
\* String(err) of an Error object: "<name>: <message>".
StringOfError(thrown) == <<thrown.tag, ": ">> \o thrown.message

\* A handler's outcome: the result it returns (thrown FALSE), or thrown TRUE
\* when an error escapes the handler.
ToolResultText(content) == [text |-> content, isError |-> FALSE, thrown |-> FALSE]

ToolResultError(message) ==
    [text |-> <<"Error: ">> \o message, isError |-> TRUE, thrown |-> FALSE]

\* The text a handler substitutes for a 404 or 400 of the client; "" for the
\* handlers that have no such branch.
NotFoundText(tool) ==
    CASE tool \in {"get_clickup_task", "get_clickup_task_context"}
           -> "Task not found or invalid task_id"
      [] tool \in {"list_clickup_lists_in_space", "list_clickup_folders"}
           -> "Space not found or invalid space_id"
      [] tool = "list_clickup_lists" -> "Folder not found or invalid folder_id"
      [] tool = "list_clickup_spaces" -> "Team not found or invalid team_id"
      [] OTHER -> ""

\* A faulty variant of CollapsedStatuses: 403 is collapsed instead of 400.
CollapsedWithForbidden(tool) == IF NotFoundText(tool) = "" THEN {} ELSE {404, 403}

\* The status codes a handler with a not-found branch collapses into it.
CollapsedStatuses(tool) == IF NotFoundText(tool) = "" THEN {} ELSE {404, 400}

\* A faulty variant of CatchToResult: only the typed error is caught, any
\* other thrown value escapes the handler.
CatchTypedOnly(tool, thrown) ==
    IF thrown.tag = "ClickUpApiError"
    THEN ToolResultError(thrown.message)
    ELSE [text |-> StringOfError(thrown), isError |-> FALSE, thrown |-> TRUE]

\* The catch block every handler ends with.
CatchToResult(tool, thrown) ==
    IF thrown.tag = "ClickUpApiError"
    THEN IF thrown.statusCode \in CollapsedStatuses(tool)
         THEN ToolResultError(<<NotFoundText(tool)>>)
         ELSE ToolResultError(thrown.message)
    ELSE ToolResultError(StringOfError(thrown))

\* getTask (part_003:128-140): a blank task id fails before any call.
GetTask(taskId, token, resp) ==
    IF Trim(taskId) = ""
    THEN ClickUpApiError(<<"task_id is required and must be non-empty">>, 400,
                         "INVALID_INPUT")
    ELSE Request(token, resp)

\* The client function a single-call handler awaits.
ClientCall(tool, args, token, resp) ==
    IF tool \in {"get_clickup_task", "get_clickup_task_context", "get_clickup_subtasks"}
    THEN GetTask(args.id, token, resp)
    ELSE Request(token, resp)

\* What the try block of a single-call handler makes of the returned value v.
\* Handlers reading a member of the value (data.tasks, task.list, ...) throw a
\* TypeError on undefined; JSON.stringify(undefined) is undefined.
OnValue(tool, v) ==
    IF tool \in {"delete_clickup_comment"} THEN ToolResultText(<<"Comment deleted.">>)
    ELSE IF tool = "delete_clickup_task" THEN ToolResultText(<<"Task deleted.">>)
    ELSE IF tool \in {"get_clickup_task", "get_clickup_subtasks", "create_clickup_comment",
                      "update_clickup_comment", "create_clickup_task", "update_clickup_task"}
         THEN ToolResultText(IF v = "undefined" THEN <<>> ELSE <<"JSON:", v>>)
    ELSE IF v = "undefined"
         THEN CatchToResult(tool, Thrown("TypeError",
                  <<"Cannot read properties of undefined">>))
    ELSE ToolResultText(<<"JSON:", v>>)

\* A single-call tool handler: try { await client; return text } catch { ... }.
ToolHandler(tool, args, token, resp) ==
    LET out == ClientCall(tool, args, token, resp) IN
    IF out.tag = "ok" THEN OnValue(tool, out.value) ELSE CatchToResult(tool, out)

\* ------------------------------------------------------ inputs
\* Values of the CLICKUP_TOKEN environment variable: unset or blank, and set.
EnvTokens == {"", " ", "pk_secret"}

\* The credential of a configured deployment.
ConfiguredToken == "pk_secret"

\* An HTTP answer of the upstream API, and fetch failing.
Http(status, statusText, body, jsonValid, contentLength0) ==
    [kind |-> "http", status |-> status, statusText |-> statusText, body |-> body,
     jsonValid |-> jsonValid, json |-> "object", contentLength0 |-> contentLength0]

NetworkError ==
    [kind |-> "network", status |-> 0, statusText |-> "", body |-> <<>>,
     jsonValid |-> FALSE, json |-> "object", contentLength0 |-> FALSE]

\* An error body in which the upstream echoes the Authorization header it was
\* sent (the credential is one element of the character sequence).
EchoBody == <<"k", "e", "y", "=", ConfiguredToken>>

\* An error body one character longer than request copies.
LongBody == [i \in 1..(BodySliceLen + 1) |-> IF i > BodySliceLen THEN "!" ELSE "x"]

\* Every kind of answer the adapter tells apart.
AllAnswers ==
    { Http(200, "OK", <<"{", "}">>, TRUE, FALSE),
      Http(200, "OK", <<>>, FALSE, TRUE),
      Http(200, "OK", <<>>, FALSE, FALSE),
      Http(204, "No Content", <<>>, FALSE, FALSE),
      Http(400, "Bad Request", <<"b", "a", "d">>, FALSE, FALSE),
      Http(401, "Unauthorized", <<>>, FALSE, FALSE),
      Http(403, "Forbidden", <<>>, FALSE, FALSE),
      Http(404, "Not Found", <<>>, FALSE, FALSE),
      Http(429, "Too Many Requests", <<>>, FALSE, FALSE),
      Http(500, "Internal Server Error", <<"o", "o", "p", "s">>, FALSE, FALSE),
      Http(502, "Bad Gateway", EchoBody, FALSE, FALSE),
      Http(503, "Service Unavailable", LongBody, FALSE, FALSE),
      NetworkError }

\* Arguments of a single-call tool: a task id, and a blank one.
ToolArgs == {[id |-> "86c6p1ach"], [id |-> " "]}

\* The upstream answers drawn while sessions and exchanges interleave.
UpstreamAnswers ==
    { Http(200, "OK", <<"{", "}">>, TRUE, FALSE),
      Http(429, "Too Many Requests", <<>>, FALSE, FALSE),
      NetworkError }

\* JSON-RPC request ids clients use; the id of an envelope that has none.
RpcIds == {"1", "2"}
NullId == "null"

\* Tools called over a session, and over a stateless exchange (one handler
\* without a not-found branch, one with).
SessionTools == {"get_clickup_tasks"}
ExchangeTools == {"get_clickup_tasks", "get_clickup_task"}

\* Arguments of those calls.
DefaultArgs == [id |-> "86c6p1ach"]

\* sessionId query parameters a client may send with POST /message.
QueryIds ==
    {NoParam, "never-issued"} \cup ObjectPrototypeKeys
        \cup {SessionIdOf(n) : n \in Conns}

\* ------------------------------------------------------ state
VARIABLES
    clickupToken,   \* process.env.CLICKUP_TOKEN
    proc,           \* the process: "starting", "listening" or "exited"
    sseTransports,  \* the session store: sessionId -> transport (its connection)
    created,        \* SSEServerTransports constructed so far
    sse,            \* per streaming connection: handler position, socket, transport
    inflight,       \* per streaming connection: requests whose tool handler is pending
    last,           \* the latest thing a handler did that a client can observe
    st              \* per stateless exchange: handler position and what was written

vars == <<clickupToken, proc, sseTransports, created, sse, inflight, last, st>>
sseVars == <<sseTransports, created, sse, inflight, last>>

NoEvent == [op |-> "none"]

IdleSse ==
    [pc |-> "idle", sessionId |-> "", sock |-> "none", closeHandler |-> FALSE,
     established |-> FALSE, transportClosed |-> FALSE, tools |-> {}]

NoRpc == [id |-> NullId, tool |-> ""]

NoAnswer ==
    [kind |-> "none", status |-> 0, statusText |-> "", body |-> <<>>,
     jsonValid |-> FALSE, json |-> "object", contentLength0 |-> FALSE]

IdleExchange ==
    [pc |-> "idle", server |-> 0, transport |-> 0, sessionId |-> "", tools |-> {},
     rpc |-> NoRpc, threw |-> "no", headersSent |-> FALSE,
     written |-> <<>>, logged |-> 0, sock |-> "none", closeHandler |-> FALSE,
     serverClosed |-> FALSE, transportClosed |-> FALSE, answer |-> NoAnswer]

Init ==
    /\ clickupToken = ConfiguredToken
    /\ proc = "listening"
    /\ sseTransports = [k \in {} |-> 0]
    /\ created = 0
    /\ sse = [c \in Conns |-> IdleSse]
    /\ inflight = [c \in Conns |-> {}]
    /\ last = NoEvent
    /\ st = [x \in Exchanges |-> IdleExchange]

\* ------------------------------------------------------ GET /sse
\* new SSEServerTransport(...): the transport's sessionId (randomUUID()).
NewSessionId(n) == SessionIdOf(n)

\* router.ts:52-60, one tick and its microtasks: construct the transport,
\* insert it, register the close handler, create the server, connect it and
\* start the transport.  connect() starts the stream (writes the headers and
\* the endpoint event naming the sessionId); when connect or the start of
\* line 60 rejects, the handler rejects and the entry stays until close.
SseOpen(c) ==
    /\ proc = "listening"
    /\ sse[c].pc = "idle"
    /\ c = created + 1
    /\ \E connectOk \in BOOLEAN, startOk \in BOOLEAN :
         LET sid == NewSessionId(created + 1) IN
         /\ sseTransports' = ObjectSet(sseTransports, sid, c)
         /\ sse' = [sse EXCEPT ![c] =
                      [pc |-> IF ~connectOk THEN "connectRejected"
                              ELSE IF ~startOk THEN "startRejected"
                              ELSE "streaming",
                       sessionId |-> sid, sock |-> "open", closeHandler |-> TRUE,
                       established |-> connectOk, transportClosed |-> FALSE,
                       tools |-> CreateMcpServer]]
    /\ created' = created + 1
    /\ last' = [op |-> "open", conn |-> c]
    /\ UNCHANGED <<clickupToken, proc, inflight, st>>

\* The underlying connection terminates: client disconnect, network failure,
\* server shutdown, or the framework ending the response of a rejected handler.
ConnTerminate(c) ==
    /\ sse[c].sock = "open"
    /\ sse' = [sse EXCEPT ![c].sock = "ended"]
    /\ UNCHANGED <<clickupToken, proc, sseTransports, created, inflight, last, st>>

\* Faulty variants of CloseDelete: the entry is kept; every entry is removed.
CloseKeepsEntry(store, sessionId) == store

CloseDeletesAll(store, sessionId) == [k \in {} |-> 0]

\* delete sseTransports[transport.sessionId] (router.ts:55).
CloseDelete(store, sessionId) == ObjectDelete(store, sessionId)

\* A faulty variant of CloseHandlerRuns: the handler is registered only once
\* connect has resolved.
CloseHandlerAfterConnect(conn) ==
    conn.sock = "ended" /\ conn.closeHandler /\ conn.established

\* Whether the close event of a terminated connection reaches a handler
\* (res.on('close', ...) registered at router.ts:54).
CloseHandlerRuns(conn) == conn.sock = "ended" /\ conn.closeHandler

\* The 'close' handler (router.ts:54-57): remove the entry, close the transport
\* (which ends the stream and detaches the server through its onclose).
SseOnClose(c) ==
    /\ CloseHandlerRuns(sse[c])
    /\ sseTransports' = CloseDelete(sseTransports, sse[c].sessionId)
    /\ sse' = [sse EXCEPT ![c].sock = "closed", ![c].transportClosed = TRUE,
                          ![c].established = FALSE]
    /\ last' = [op |-> "close", conn |-> c]
    /\ UNCHANGED <<clickupToken, proc, created, inflight, st>>

\* ------------------------------------------------------ POST /message
\* A faulty variant of LookupTransport: any stored transport is taken.
LookupAnyTransport(store, sessionId) ==
    IF DOMAIN store = {}
    THEN [kind |-> "undefined", conn |-> 0]
    ELSE [kind |-> "transport", conn |-> store[CHOOSE k \in DOMAIN store : TRUE]]

\* router.ts:64-65: const transport = sessionId ? sseTransports[sessionId] : undefined.
LookupTransport(store, sessionId) ==
    IF sessionId = NoParam
    THEN [kind |-> "undefined", conn |-> 0]
    ELSE ObjectGet(store, sessionId)

\* router.ts:67-71: status 400 and the envelope the gateway writes itself.
NoTransportEnvelope ==
    [http |-> 400, code |-> -32000, message |-> "No transport found for sessionId",
     id |-> NullId]

\* What POST /message does with a looked-up transport (router.ts:66-74):
\*   "noSession"       !transport: the gateway answers 400 itself;
\*   "rejected"        transport is an inherited member of Object.prototype, so
\*                     transport.handlePostMessage is not a function: the async
\*                     handler rejects with a TypeError and writes nothing;
\*   "notEstablished"  the transport has no open stream: it answers 500 itself;
\*   "accepted"        the transport answers 202 and hands the message to its server.
PostOutcome(transport, conns) ==
    IF transport.kind = "undefined" THEN "noSession"
    ELSE IF transport.kind = "inherited" THEN "rejected"
    ELSE IF ~conns[transport.conn].established THEN "notEstablished"
    ELSE "accepted"

PostMessage(q, rpc) ==
    LET transport == LookupTransport(sseTransports, q)
        outcome == PostOutcome(transport, sse)
    IN
    /\ proc = "listening"
    /\ outcome = "accepted" => Cardinality(inflight[transport.conn]) < MaxInflight
    /\ inflight' = IF outcome = "accepted"
                   THEN [inflight EXCEPT ![transport.conn] = @ \cup {rpc}]
                   ELSE inflight
    /\ last' = [op |-> "post", sessionId |-> q, outcome |-> outcome,
                wasKey |-> q \in DOMAIN sseTransports,
                stale |-> \E c \in Conns : sse[c].sessionId = q /\ sse[c].sock = "closed",
                envelope |-> IF outcome = "noSession" THEN NoTransportEnvelope
                             ELSE [http |-> IF outcome = "accepted" THEN 202
                                            ELSE IF outcome = "notEstablished" THEN 500
                                            ELSE 0,
                                   code |-> 0, message |-> "", id |-> NullId],
                to |-> IF outcome = "accepted" THEN transport.conn ELSE 0,
                toClosed |-> outcome = "accepted" /\ sse[transport.conn].transportClosed]
    /\ UNCHANGED <<clickupToken, proc, sseTransports, created, sse, st>>

\* A faulty variant of StreamWritable: a result is written whenever the server
\* was once connected, also after the connection has gone.
StreamWritableAfterClose(conn) == conn.established \/ conn.transportClosed

\* The transport of a session writes on the response it was constructed with
\* (router.ts:52), which carries data only while the connection is open and
\* the stream was started (router.ts:59-60).
StreamWritable(conn) == conn.established /\ conn.sock = "open"

\* A pending tool handler of session c finishes: its upstream call is answered
\* (or was never issued for lack of a credential) and the server sends the
\* result through the transport, which writes it on the stream while the
\* stream is open and drops it otherwise.
UpstreamRespond(c, rpc, resp) ==
    /\ rpc \in inflight[c]
    /\ inflight' = [inflight EXCEPT ![c] = @ \ {rpc}]
    /\ last' = IF StreamWritable(sse[c])
                THEN [op |-> "deliver", conn |-> c, id |-> rpc.id, tool |-> rpc.tool,
                      answer |-> resp,
                      result |-> ToolHandler(rpc.tool, DefaultArgs, clickupToken, resp)]
                ELSE [op |-> "discard", conn |-> c]
    /\ UNCHANGED <<clickupToken, proc, sseTransports, created, sse, st>>

Rpcs == [id : RpcIds, tool : SessionTools]
ExchangeRpcs == [id : RpcIds, tool : ExchangeTools]

\* ------------------------------------------------------ GET|POST /mcp
NoResult == [text |-> <<>>, isError |-> FALSE, thrown |-> FALSE]

\* Bytes the transport put on the response before failing.
PartialBytes ==
    [kind |-> "bytes", http |-> 200, code |-> 0, message |-> "", id |-> NullId,
     result |-> NoResult]

\* The RPC response the transport writes for a finished tool call.
ResultEnvelope(id, result) ==
    [kind |-> "result", http |-> 200, code |-> 0, message |-> "", id |-> id,
     result |-> result]

\* A faulty variant of InternalErrorEnvelope: the request's id is echoed.
EnvelopeEchoingId(rpc) ==
    [kind |-> "error", http |-> 500, code |-> -32603,
     message |-> "Internal server error", id |-> rpc.id,
     result |-> [text |-> <<>>, isError |-> FALSE, thrown |-> FALSE]]

\* router.ts:35-39: the envelope of the catch block.
InternalErrorEnvelope(rpc) ==
    [kind |-> "error", http |-> 500, code |-> -32603,
     message |-> "Internal server error", id |-> NullId, result |-> NoResult]

\* A faulty variant of CatchWrites: headersSent is not consulted.
CatchAlwaysWrites(headersSent, rpc) == <<InternalErrorEnvelope(rpc)>>

\* router.ts:34: what the catch block adds to the response.
CatchWrites(headersSent, rpc) ==
    IF ~headersSent THEN <<InternalErrorEnvelope(rpc)>> ELSE <<>>

\* router.ts:32-41: console.error, then the envelope unless headers were sent.
Catch(ex, cause) ==
    [ex EXCEPT !.pc = "done", !.threw = cause, !.logged = @ + 1,
               !.written = @ \o CatchWrites(ex.headersSent, ex.rpc),
               !.headersSent = TRUE]

\* Objects the stateless handler has constructed so far: a server and a
\* transport per call received.
Allocated == 2 * Cardinality({y \in Exchanges : st[y].pc # "idle"})

\* A faulty variant of FreshServer: one server instance serves every call.
SharedServer(allocated) == 1

\* createMcpServer() (router.ts:23) returns a newly constructed McpServer, and
\* new StreamableHTTPServerTransport(...) (router.ts:24) a new transport: each
\* an object distinct from every object constructed before.
FreshServer(allocated) == allocated + 1
FreshTransport(allocated) == allocated + 2

\* sessionIdGenerator: undefined (router.ts:24): the transport has no session id.
NoSessionId == "undefined"

\* router.ts:23-24: the objects of a call just received.
Constructed(rpc) ==
    [IdleExchange EXCEPT !.rpc = rpc, !.sock = "open",
                         !.server = FreshServer(Allocated),
                         !.transport = FreshTransport(Allocated),
                         !.sessionId = NoSessionId,
                         !.tools = CreateMcpServer]

\* router.ts:23-27: a fresh server and transport, connect, then the close
\* handler; a rejected connect goes to the catch block with nothing written.
StatelessBegin(x, rpc) ==
    /\ proc = "listening"
    /\ st[x].pc = "idle"
    /\ \A y \in Exchanges : y < x => st[y].pc # "idle"
    /\ \E connectOk \in BOOLEAN :
         st' = [st EXCEPT ![x] =
                  IF connectOk
                  THEN [Constructed(rpc) EXCEPT !.pc = "handling",
                                                !.closeHandler = TRUE]
                  ELSE Catch(Constructed(rpc), "connect")]
    /\ UNCHANGED <<clickupToken, proc, sseVars>>

\* router.ts:31: await transport.handleRequest(...).  It resolves once the
\* transport has opened the response and handed the request to the server, or
\* it rejects, before or after the transport wrote to the response.
StatelessHandle(x) ==
    /\ st[x].pc = "handling"
    /\ \E outcome \in {"ok", "before", "after"} :
         st' = [st EXCEPT ![x] =
                  CASE outcome = "ok" -> [@ EXCEPT !.pc = "pending", !.headersSent = TRUE]
                    [] outcome = "before" -> Catch(@, "before")
                    [] outcome = "after" ->
                         Catch([@ EXCEPT !.headersSent = TRUE,
                                         !.written = @ \o <<PartialBytes>>], "after")]
    /\ UNCHANGED <<clickupToken, proc, sseVars>>

\* The tool handler of the exchange finishes; the transport writes the
\* response carrying its result while the connection is open and drops it
\* otherwise.
StatelessRespond(x, resp) ==
    /\ st[x].pc = "pending"
    /\ st' = [st EXCEPT ![x].pc = "done", ![x].answer = resp,
                        ![x].written =
                            IF st[x].sock = "open"
                            THEN @ \o <<ResultEnvelope(st[x].rpc.id,
                                     ToolHandler(st[x].rpc.tool, DefaultArgs,
                                                 clickupToken, resp))>>
                            ELSE @]
    /\ UNCHANGED <<clickupToken, proc, sseVars>>

\* The connection of the exchange closes: the response finished, or the
\* client went away.
StatelessTerminate(x) ==
    /\ st[x].sock = "open"
    /\ st' = [st EXCEPT ![x].sock = "ended"]
    /\ UNCHANGED <<clickupToken, proc, sseVars>>

\* The 'close' handler (router.ts:27-30): close the transport and the server.
StatelessOnClose(x) ==
    /\ st[x].sock = "ended"
    /\ st[x].closeHandler
    /\ st' = [st EXCEPT ![x].sock = "closed", ![x].transportClosed = TRUE,
                        ![x].serverClosed = TRUE]
    /\ UNCHANGED <<clickupToken, proc, sseVars>>

SseNext ==
    \/ \E c \in Conns : SseOpen(c)
    \/ \E c \in Conns : ConnTerminate(c)
    \/ \E c \in Conns : SseOnClose(c)
    \/ \E q \in QueryIds, rpc \in Rpcs : PostMessage(q, rpc)
    \/ \E c \in Conns, rpc \in Rpcs, resp \in UpstreamAnswers : UpstreamRespond(c, rpc, resp)

\* The steps of stateless exchange x.
StatelessStep(x) ==
    \/ \E rpc \in ExchangeRpcs : StatelessBegin(x, rpc)
    \/ StatelessHandle(x)
    \/ \E resp \in UpstreamAnswers : StatelessRespond(x, resp)
    \/ StatelessTerminate(x)
    \/ StatelessOnClose(x)

StatelessNext == \E x \in Exchanges : StatelessStep(x)

\* Sessions interleaved with one stateless exchange.
Next == SseNext \/ StatelessStep(1)

\* A session opening and closing while stateless exchanges are served.
StoreNext ==
    \/ SseOpen(1)
    \/ ConnTerminate(1)
    \/ SseOnClose(1)
    \/ StatelessNext

\* ------------------------------------------------------ one tool call
\* A process with any credential setting.
ToolInit ==
    /\ clickupToken \in EnvTokens
    /\ proc = "listening"
    /\ sseTransports = [k \in {} |-> 0]
    /\ created = 0
    /\ sse = [c \in Conns |-> IdleSse]
    /\ inflight = [c \in Conns |-> {}]
    /\ last = NoEvent
    /\ st = [x \in Exchanges |-> IdleExchange]

\* The server runs the handler of a registered tool to completion.
ToolCall(tool, args, resp) ==
    /\ proc = "listening"
    /\ last' = [op |-> "tool", tool |-> tool, args |-> args, answer |-> resp,
                out |-> ClientCall(tool, args, clickupToken, resp),
                calls |-> ClientCall(tool, args, clickupToken, resp).calls,
                result |-> ToolHandler(tool, args, clickupToken, resp)]
    /\ UNCHANGED <<clickupToken, proc, sseTransports, created, sse, inflight, st>>

ToolNext ==
    \E tool \in SingleCallTools, args \in ToolArgs, resp \in AllAnswers :
        ToolCall(tool, args, resp)

\* ------------------------------------------------------ tools/call dispatch
\* The id argument of a call when it is absent or not a string.
Missing == "<missing>"

\* Tools whose id parameter is declared z.string().min(1); tools without
\* parameters (inputSchema: {}).  Every other id parameter is z.string().
MinOneTools == {"get_clickup_task", "get_clickup_task_context", "get_clickup_subtasks"}
NoArgTools == {"list_clickup_teams"}

\* Whether the arguments pass the inputSchema the tool was registered with.
SchemaAccepts(tool, args) ==
    \/ tool \in NoArgTools
    \/ /\ args.id # Missing
       /\ tool \in MinOneTools => Len(args.id) >= 1

\* The two ways the protocol library reports a call it does not hand to a
\* handler: a JSON-RPC error response, or a result flagged isError.
SdkFailureForms == {"rpcError", "toolError"}

\* Names a client may put in tools/call, and the arguments it may send.
DispatchNames == SingleCallTools \cup {"no_such_tool", "get_task"}
DispatchArgs == {[id |-> "86c6p1ach"], [id |-> " "], [id |-> ""], [id |-> Missing]}

\* A faulty variant of Dispatch: a name without a handler falls through to a
\* handler that calls the upstream.
DispatchWithFallback(name, args, token, resp, form) ==
    [kind |-> "result", form |-> "toolResult", invoked |-> TRUE,
     calls |-> Request(token, resp).calls,
     result |-> ToolResultText(<<"JSON:", "object">>)]

\* tools/call as the server built by createMcpServer serves it: the handler
\* registered under the name, if any, is run on arguments its schema accepts.
Dispatch(name, args, token, resp, form) ==
    IF name \notin ToolNames
    THEN [kind |-> "unknownTool", form |-> form, invoked |-> FALSE, calls |-> 0,
          result |-> NoResult]
    ELSE IF ~SchemaAccepts(name, args)
    THEN [kind |-> "invalidArguments", form |-> form, invoked |-> FALSE, calls |-> 0,
          result |-> NoResult]
    ELSE [kind |-> "result", form |-> "toolResult", invoked |-> TRUE,
          calls |-> ClientCall(name, args, token, resp).calls,
          result |-> ToolHandler(name, args, token, resp)]

\* The server answers one tools/call request.
DispatchCall(name, args, resp, form) ==
    /\ proc = "listening"
    /\ last' = [op |-> "dispatch", name |-> name, args |-> args, answer |-> resp,
                outcome |-> Dispatch(name, args, clickupToken, resp, form)]
    /\ UNCHANGED <<clickupToken, proc, sseTransports, created, sse, inflight, st>>

DispatchNext ==
    \E name \in DispatchNames, args \in DispatchArgs, resp \in UpstreamAnswers,
       form \in SdkFailureForms :
        DispatchCall(name, args, resp, form)

\* ------------------------------------------------------ create_clickup_subtask
\* Arguments of create_clickup_subtask: a parent id and a name, either blank.
SubtaskArgs ==
    [parent : {"86c6p1ach", " 86c6p1ach ", " "}, name : {"Sub", " Sub ", " "},
     description : {Missing, "D"}]

\* The upstream answers drawn for each of the two requests of createSubtask.
SubtaskAnswers ==
    { Http(200, "OK", <<"{", "}">>, TRUE, FALSE),
      Http(204, "No Content", <<>>, FALSE, FALSE),
      Http(404, "Not Found", <<>>, FALSE, FALSE),
      Http(429, "Too Many Requests", <<>>, FALSE, FALSE),
      NetworkError }

\* createSubtask (part_003:229-246): the argument checks, the parent lookup,
\* the list of the parent (hasList: whether the decoded parent holds list.id),
\* then the create.  calls adds up the fetch calls of both requests.
CreateSubtask(args, token, lookupResp, hasList, createResp) ==
    IF Trim(args.parent) = ""
    THEN ClickUpApiError(<<"parent_task_id is required and must be non-empty">>,
                         400, "INVALID_INPUT")
    ELSE IF Trim(args.name) = ""
    THEN ClickUpApiError(<<"name is required and must be non-empty">>,
                         400, "INVALID_INPUT")
    ELSE LET parent == GetTask(Trim(args.parent), token, lookupResp) IN
         IF parent.tag # "ok" THEN parent
         ELSE IF parent.value = "undefined"
         THEN [Thrown("TypeError", <<"Cannot read properties of undefined">>)
                  EXCEPT !.calls = parent.calls]
         ELSE IF ~hasList
         THEN [ClickUpApiError(<<"Parent task has no list context (task_id=",
                                 Trim(args.parent), "). Cannot create subtask.">>,
                               400, "NO_LIST")
                  EXCEPT !.calls = parent.calls]
         ELSE [Request(token, createResp) EXCEPT !.calls = @ + parent.calls]

\* The id of the parent's list in a lookup answer that carries one; the code
\* coerces it with String() (part_003:242).
ParentListId == 901

\* A faulty variant of ParentOf: the subtask is created without a parent.
ParentOmitted(parentId) == <<>>

\* The parent entry of the create body (part_003:243).
ParentOf(parentId) == <<<<"parent", parentId>>>>

\* The create body (part_003:243-244), as the <<key, value>> pairs
\* JSON.stringify writes.
SubtaskBody(args) ==
    <<<<"name", Trim(args.name)>>>> \o ParentOf(Trim(args.parent))
        \o (IF args.description # Missing THEN <<<<"description", args.description>>>>
            ELSE <<>>)

\* The requests createSubtask issues, in order: the lookup of the parent
\* (part_003:238, 128-140), then the create in the parent's list (245, 200-205).
SubtaskRequests(args, token, lookupResp, hasList, createResp) ==
    LET issued == CreateSubtask(args, token, lookupResp, hasList, createResp).calls
        lookup == [method |-> "GET", path |-> "/task/" \o Trim(args.parent),
                   body |-> <<>>]
        create == [method |-> "POST",
                   path |-> "/list/" \o ToString(ParentListId) \o "/task",
                   body |-> SubtaskBody(args)]
    IN IF issued = 0 THEN <<>>
       ELSE IF issued = 1 THEN <<lookup>>
       ELSE <<lookup, create>>

\* The handler of create_clickup_subtask (part_003:998-1011).
SubtaskHandler(args, token, lookupResp, hasList, createResp) ==
    LET out == CreateSubtask(args, token, lookupResp, hasList, createResp) IN
    IF out.tag = "ok"
    THEN ToolResultText(IF out.value = "undefined" THEN <<>> ELSE <<"JSON:", out.value>>)
    ELSE CatchToResult("create_clickup_subtask", out)

\* The server runs the handler of create_clickup_subtask to completion.  The
\* handler keeps nothing between calls, so one call per run is followed.
SubtaskCall(args, lookupResp, hasList, createResp) ==
    /\ proc = "listening"
    /\ last = NoEvent
    /\ last' = [op |-> "subtask", args |-> args, lookup |-> lookupResp,
                hasList |-> hasList, create |-> createResp,
                sent |-> SubtaskRequests(args, clickupToken, lookupResp, hasList,
                                         createResp),
                out |-> CreateSubtask(args, clickupToken, lookupResp, hasList, createResp),
                result |-> SubtaskHandler(args, clickupToken, lookupResp, hasList,
                                          createResp)]
    /\ UNCHANGED <<clickupToken, proc, sseTransports, created, sse, inflight, st>>

SubtaskNext ==
    \E args \in SubtaskArgs, lookupResp \in SubtaskAnswers, hasList \in BOOLEAN,
       createResp \in SubtaskAnswers :
        SubtaskCall(args, lookupResp, hasList, createResp)


\* ------------------------------------------------------ lists of a space
\* Names as sequences of characters, so that trimming and case folding are
\* computed.  String.prototype.toLowerCase on the letters the model draws.
LowerOf(ch) ==
    CASE ch = "A" -> "a"
      [] ch = "B" -> "b"
      [] OTHER -> ch

ToLowerCase(s) == [i \in 1..Len(s) |-> LowerOf(s[i])]

RECURSIVE TrimStart(_)
TrimStart(s) == IF s # <<>> /\ Head(s) = " " THEN TrimStart(Tail(s)) ELSE s

RECURSIVE TrimEnd(_)
TrimEnd(s) ==
    IF s # <<>> /\ s[Len(s)] = " " THEN TrimEnd(SubSeq(s, 1, Len(s) - 1)) ELSE s

\* String.prototype.trim on a sequence of characters.
TrimChars(s) == TrimEnd(TrimStart(s))

RECURSIVE Join(_, _)
\* Array.prototype.join(sep) on a sequence of character sequences.
Join(names, sep) ==
    IF names = <<>> THEN <<>>
    ELSE IF Len(names) = 1 THEN names[1]
    ELSE names[1] \o sep \o Join(Tail(names), sep)

\* The paths the adapter requests.
FolderlessPath(spaceId) == "/space/" \o spaceId \o "/list"
FoldersPath(spaceId) == "/space/" \o spaceId \o "/folder"
ListsPath(folderId) == "/folder/" \o folderId \o "/list"
TasksPath(listId) == "/list/" \o listId \o "/task"

\* One awaited request: its outcome and, when a fetch was issued, its path.
Awaited(token, resp, path) ==
    LET r == Request(token, resp) IN
    [out |-> r, trace |-> IF r.calls > 0 THEN <<path>> ELSE <<>>]

\* Destructuring the awaited value when the response had no body (request
\* returned undefined): const { lists } = undefined throws a TypeError.
Destructured(step, resp) ==
    IF step.out.tag = "ok" /\ (resp.contentLength0 \/ resp.status = 204)
    THEN [step EXCEPT !.out = Thrown("TypeError",
                                      <<"Cannot destructure property of undefined">>)]
    ELSE step

\* list.name ?? '(unnamed)' (part_003:315, 326); folder.name likewise (328).
NameOrUnnamed(item) == IF item.hasName THEN item.name ELSE <<"(unnamed)">>

\* The rows pushed for the lists of one folder (part_003:312-319, 323-330).
Rows(lists, folderId, folderName) ==
    [i \in 1..Len(lists) |->
        [list_id |-> lists[i].id, list_name |-> NameOrUnnamed(lists[i]),
         folder_id |-> folderId, folder_name |-> folderName]]

\* A faulty variant of FolderLoop: the list calls of all folders are issued
\* before any outcome is looked at.
RECURSIVE FolderLoopEager(_, _, _, _, _)
FolderLoopEager(token, net, folders, rows, trace) ==
    IF folders = <<>> THEN [out |-> Returned(rows), trace |-> trace]
    ELSE LET folder == Head(folders)
             step == Destructured(Awaited(token, net.lists[folder.id],
                                          ListsPath(folder.id)),
                                  net.lists[folder.id])
             rest == FolderLoopEager(token, net, Tail(folders),
                         IF step.out.tag = "ok"
                         THEN rows \o Rows(step.out.value.lists, folder.id,
                                          NameOrUnnamed(folder))
                         ELSE rows,
                         trace \o step.trace)
         IN IF step.out.tag # "ok" THEN [out |-> step.out, trace |-> rest.trace]
            ELSE rest

\* The loop over the folders (part_003:321-331): one awaited getLists per
\* folder, in folder order; a rejected await leaves the function.
RECURSIVE FolderLoop(_, _, _, _, _)
FolderLoop(token, net, folders, rows, trace) ==
    IF folders = <<>> THEN [out |-> Returned(rows), trace |-> trace]
    ELSE LET folder == Head(folders)
             step == Destructured(Awaited(token, net.lists[folder.id],
                                          ListsPath(folder.id)),
                                  net.lists[folder.id])
         IN IF step.out.tag # "ok"
            THEN [out |-> step.out, trace |-> trace \o step.trace]
            ELSE FolderLoop(token, net, Tail(folders),
                            rows \o Rows(step.out.value.lists, folder.id,
                                         NameOrUnnamed(folder)),
                            trace \o step.trace)

\* getAllListsInSpace (part_003:308-333) against an upstream net answering
\* net.folderless, net.folders and net.lists[folderId]: the rows it returns
\* or the error it throws, and the requests it issued, in order.
GetAllListsInSpace(spaceId, token, net) ==
    LET first == Destructured(Awaited(token, net.folderless, FolderlessPath(spaceId)),
                              net.folderless)
    IN IF first.out.tag # "ok" THEN first
       ELSE LET second == Destructured(Awaited(token, net.folders, FoldersPath(spaceId)),
                                       net.folders)
            IN IF second.out.tag # "ok"
               THEN [out |-> second.out, trace |-> first.trace \o second.trace]
               ELSE FolderLoop(token, net, second.out.value.folders,
                               Rows(first.out.value.lists, "", <<"(folderless)">>),
                               first.trace \o second.trace)


\* A faulty variant of NameMatches: the comparison is case-sensitive.
NameMatchesCaseSensitive(row, listName) == row.list_name = TrimChars(listName)

\* (l.list_name ?? '').toLowerCase() === args.list_name.trim().toLowerCase()
\* (part_003:1107-1108): the argument is trimmed, the name of the list is not.
NameMatches(row, listName) ==
    ToLowerCase(row.list_name) = ToLowerCase(TrimChars(listName))

\* Array.prototype.find: the index of the first matching row, 0 for undefined.
FindByName(rows, listName) ==
    LET hits == {i \in 1..Len(rows) : NameMatches(rows[i], listName)} IN
    IF hits = {} THEN 0 ELSE CHOOSE i \in hits : \A k \in hits : i <= k

\* names || '(none)' after lists.map(l => l.list_name).join(', ').
AvailableNames(rows) ==
    LET names == Join([i \in 1..Len(rows) |-> rows[i].list_name], <<",", " ">>) IN
    IF names = <<>> THEN <<"(none)">> ELSE names

\* The handler of get_clickup_tasks_by_list_name (part_003:1105-1128): its
\* result, the requests issued in order, and the id of the list it resolved
\* ("" when none).
TasksByListName(args, token, net) ==
    LET tool == "get_clickup_tasks_by_list_name"
        all == GetAllListsInSpace(args.space_id, token, net)
    IN
    IF all.out.tag # "ok"
    THEN [result |-> CatchToResult(tool, all.out), trace |-> all.trace, found |-> ""]
    ELSE LET rows == all.out.value
             at == FindByName(rows, args.list_name)
         IN
         IF at = 0
         THEN [result |-> ToolResultError(<<"List \"">> \o args.list_name
                              \o <<"\" not found in space. Available lists: ">>
                              \o AvailableNames(rows)),
               trace |-> all.trace, found |-> ""]
         ELSE LET found == rows[at]
                  data == Awaited(token, net.tasks, TasksPath(found.list_id))
              IN
              [result |->
                  IF data.out.tag # "ok" THEN CatchToResult(tool, data.out)
                  ELSE IF net.tasks.contentLength0 \/ net.tasks.status = 204
                  THEN CatchToResult(tool, Thrown("TypeError",
                                        <<"Cannot read properties of undefined">>))
                  ELSE ToolResultText(<<"JSON:", found.list_id>> \o found.list_name
                                          \o <<data.out.value>>),
               trace |-> all.trace \o data.trace, found |-> found.list_id]

\* Lists and folders of the upstream workspace.  Two lists differ in case
\* only, one carries a trailing blank, one has no name.
ListAb == [id |-> "l1", name |-> <<"A", "b">>, hasName |-> TRUE]
ListLower == [id |-> "l2", name |-> <<"a", "b">>, hasName |-> TRUE]
ListPadded == [id |-> "l3", name |-> <<"a", "b", " ">>, hasName |-> TRUE]
ListUnnamed == [id |-> "l4", name |-> <<>>, hasName |-> FALSE]
Folder1 == [id |-> "f1", name |-> <<"F">>, hasName |-> TRUE]
Folder2 == [id |-> "f2", name |-> <<>>, hasName |-> FALSE]
FolderIds == {"f1", "f2"}

\* Decoded bodies; a body without the member reads as the empty array (?? []).
Body(lists, folders) == [lists |-> lists, folders |-> folders]
OkBody(v) == [Http(200, "OK", <<"{", "}">>, TRUE, FALSE) EXCEPT !.json = v]
Failed(resp) == [resp EXCEPT !.json = Body(<<>>, <<>>)]

FolderlessAnswers ==
    { OkBody(Body(<<>>, <<>>)), OkBody(Body(<<ListAb>>, <<>>)),
      OkBody(Body(<<ListPadded, ListUnnamed>>, <<>>)),
      Failed(Http(404, "Not Found", <<>>, FALSE, FALSE)),
      Failed(Http(204, "No Content", <<>>, FALSE, FALSE)),
      Failed(NetworkError) }

FoldersAnswers ==
    { OkBody(Body(<<>>, <<>>)), OkBody(Body(<<>>, <<Folder1>>)),
      OkBody(Body(<<>>, <<Folder1, Folder2>>)),
      Failed(Http(429, "Too Many Requests", <<>>, FALSE, FALSE)) }

ListsAnswers ==
    [f1 : { OkBody(Body(<<ListLower>>, <<>>)), OkBody(Body(<<>>, <<>>)),
            Failed(Http(404, "Not Found", <<>>, FALSE, FALSE)) },
     f2 : { OkBody(Body(<<ListAb, ListLower>>, <<>>)),
            Failed(Http(429, "Too Many Requests", <<>>, FALSE, FALSE)) }]

TasksAnswers ==
    { Http(200, "OK", <<"{", "}">>, TRUE, FALSE),
      Http(429, "Too Many Requests", <<>>, FALSE, FALSE) }

Nets ==
    [folderless : FolderlessAnswers, folders : FoldersAnswers, lists : ListsAnswers,
     tasks : TasksAnswers]

ListNameArgs ==
    [space_id : {"s1"},
     list_name : {<<"a", "b">>, <<" ", "A", "B", " ">>, <<"a", "b", " ">>, <<"z">>}]

\* The server runs get_clickup_tasks_by_list_name to completion; all is what
\* getAllListsInSpace did on the way.  The handler keeps nothing between
\* calls, so one call per run is followed.
ListsCall(args, net) ==
    /\ proc = "listening"
    /\ last = NoEvent
    /\ last' = [op |-> "lists", args |-> args, net |-> net,
                all |-> GetAllListsInSpace(args.space_id, clickupToken, net),
                run |-> TasksByListName(args, clickupToken, net)]
    /\ UNCHANGED <<clickupToken, proc, sseTransports, created, sse, inflight, st>>

ListsNext == \E args \in ListNameArgs, net \in Nets : ListsCall(args, net)


\* ------------------------------------------------------ update_clickup_task
\* The optional fields of the input schema, in the order the handler looks at
\* them (part_003:1021-1024, 1029-1032).
UpdateFields == <<"name", "description", "status", "priority">>

\* Validated arguments are a function from the keys the caller supplied to
\* their values; a key the caller omitted reads as undefined.
\* A faulty variant of Supplied: an empty string and 0 count as omitted.
SuppliedTruthy(args, key) == key \in DOMAIN args /\ args[key] \notin {"", "0"}

\* args.key !== undefined.
Supplied(args, key) == key \in DOMAIN args

\* part_003:1028-1032: the body is built key by key, in this order; the
\* entries JSON.stringify writes, as <<key, value>> pairs.
RECURSIVE BodyEntries(_, _)
BodyEntries(args, keys) ==
    IF keys = <<>> THEN <<>>
    ELSE (IF Supplied(args, Head(keys)) THEN <<<<Head(keys), args[Head(keys)]>>>>
          ELSE <<>>) \o BodyEntries(args, Tail(keys))

\* updateTask (part_003:216-221): PUT /task/{id} with the body; the request
\* as issued (none when the credential is missing) and its outcome.
UpdateTask(taskId, body, token, resp) ==
    LET out == Request(token, resp) IN
    [out |-> out,
     sent |-> IF out.calls > 0
              THEN <<[method |-> "PUT", path |-> "/task/" \o taskId, body |-> body]>>
              ELSE <<>>]

\* The handler of update_clickup_task (part_003:1027-1041).
UpdateHandler(args, token, resp) ==
    LET task == UpdateTask(args["task_id"], BodyEntries(args, UpdateFields), token, resp).out
    IN IF task.tag = "ok"
       THEN ToolResultText(IF task.value = "undefined" THEN <<>> ELSE <<"JSON:", task.value>>)
       ELSE CatchToResult("update_clickup_task", task)

\* Arguments a caller can pass: the task id and any subset of the optional
\* fields, each empty or not (priority as its JSON numeral).
UpdateArgs ==
    UNION {[{"task_id"} \cup S -> {"", "0", "v"}] :
              S \in SUBSET {UpdateFields[i] : i \in 1..Len(UpdateFields)}}

\* The server runs update_clickup_task to completion.
UpdateCall(args, resp) ==
    /\ proc = "listening"
    /\ last = NoEvent
    /\ last' = [op |-> "update", args |-> args, answer |-> resp,
                sent |-> UpdateTask(args["task_id"], BodyEntries(args, UpdateFields),
                                    clickupToken, resp).sent,
                result |-> UpdateHandler(args, clickupToken, resp)]
    /\ UNCHANGED <<clickupToken, proc, sseTransports, created, sse, inflight, st>>

UpdateNext == \E args \in UpdateArgs, resp \in UpstreamAnswers : UpdateCall(args, resp)

\* ------------------------------------------------------ process start
\* A process about to run index.ts, with any credential setting.
StartInit ==
    /\ clickupToken \in EnvTokens
    /\ proc = "starting"
    /\ sseTransports = [k \in {} |-> 0]
    /\ created = 0
    /\ sse = [c \in Conns |-> IdleSse]
    /\ inflight = [c \in Conns |-> {}]
    /\ last = NoEvent
    /\ st = [x \in Exchanges |-> IdleExchange]

\* index.ts:15-17: a missing credential is warned about and the script goes
\* on (the earlier index, part_001:10-13, called process.exit(1) here).
TokenCheck(token) == IF Trim(token) = "" THEN "warn" ELSE "continue"

\* index.ts:13-134 run top to bottom: the credential check, the routes, then
\* app.listen, which binds the port or fails (the port is taken).
Startup ==
    /\ proc = "starting"
    /\ \E listenOk \in BOOLEAN :
         proc' = IF listenOk THEN "listening" ELSE "exited"
    /\ last' = [op |-> "start", check |-> TokenCheck(clickupToken)]
    /\ UNCHANGED <<clickupToken, sseTransports, created, sse, inflight, st>>

StartNext == Startup \/ ToolNext

\* The whole gateway: sessions and stateless exchanges interleaved.
Spec == Init /\ [][Next]_vars

\* The streaming transport and its session store alone.
SseSpec == Init /\ [][SseNext]_vars

\* The stateless transport alone.
StatelessSpec == Init /\ [][StatelessNext]_vars

\* The stateless transport while the session store fills and empties.
StoreSpec == Init /\ [][StoreNext]_vars

\* The stateless transport under the event loop's guarantee that the 'close'
\* event of a terminated connection is dispatched to a registered handler.
StatelessLiveSpec == StatelessSpec /\ \A x \in Exchanges : WF_vars(StatelessOnClose(x))

\* The tool handlers alone, over every answer and credential setting.
ToolSpec == ToolInit /\ [][ToolNext]_vars

\* The dispatch of tools/call requests alone.
DispatchSpec == ToolInit /\ [][DispatchNext]_vars

\* The composite create-subtask tool alone.
SubtaskSpec == ToolInit /\ [][SubtaskNext]_vars

\* The update tool alone.
UpdateSpec == ToolInit /\ [][UpdateNext]_vars

\* The tools that walk the lists of a space.
ListsSpec == ToolInit /\ [][ListsNext]_vars

\* The process from its start, then serving tool calls.
StartSpec == StartInit /\ [][StartNext]_vars

\* The streaming transport under the event loop's guarantee that the 'close'
\* event of a terminated connection is dispatched to its handler.
SseLiveSpec == SseSpec /\ \A c \in Conns : WF_vars(SseOnClose(c))

\* ------------------------------------------------------ properties
Contains(text, part) == \E i \in 1..Len(text) : text[i] = part

\* A follow-up step: POST /message ran to its end in this step.
PostStep == last'.op = "post" /\ (last' # last \/ inflight' # inflight)

\* C1: a follow-up whose sessionId is missing or is no key of the session
\* store is answered by the gateway with the "no active session" envelope,
\* and nothing is handed to any server or queued for later delivery.
C1_UnknownSessionGetsNoSessionFault ==
    [][(PostStep /\ ~last'.wasKey)
         => /\ last'.outcome = "noSession"
            /\ last'.envelope = NoTransportEnvelope
            /\ inflight' = inflight]_vars

C3_StaleIdGetsNoSessionFault ==
    [][(PostStep /\ last'.stale)
         => /\ last'.outcome = "noSession"
            /\ last'.envelope = NoTransportEnvelope
            /\ last'.to = 0
            /\ inflight' = inflight]_vars

\* A follow-up carried the id of a closed session and was refused.
C3_StaleIdRefused ==
    /\ last.op = "post"
    /\ last.stale
    /\ last.outcome = "noSession"
    /\ \E c \in Conns : sse[c].sessionId = last.sessionId /\ sse[c].transportClosed

\* Connections whose transport was inserted and whose close handler has not run.
OpenConns == {c \in Conns : sse[c].sock \in {"open", "ended"}}

\* The close handler of connection c runs in this step.
CloseStep(c) == sse[c].sock = "ended" /\ sse'[c].sock = "closed"

\* C4: the ids of concurrently open sessions are pairwise distinct, and the
\* close of one session removes that session's entry only: the entry of every
\* other open session is unchanged.
C4_DistinctIdsAndIsolatedClose ==
    /\ [](\A c, d \in OpenConns : c # d => sse[c].sessionId # sse[d].sessionId)
    /\ [][\A c \in Conns : CloseStep(c) =>
            /\ sse[c].sessionId \notin DOMAIN sseTransports'
            /\ \A d \in OpenConns \ {c} :
                 /\ sse[d].sessionId \in DOMAIN sseTransports'
                 /\ sseTransports'[sse[d].sessionId] = sseTransports[sse[d].sessionId]
                 /\ sse'[d] = sse[d]]_vars

\* One of two sessions has been closed while the other is still in the store.
C4_OneClosedOtherOpen ==
    \E c, d \in Conns :
        /\ sse[c].sock = "closed"
        /\ sse[d].sock = "open"
        /\ sse[d].sessionId \in DOMAIN sseTransports
        /\ sseTransports[sse[d].sessionId] = d
        /\ last = [op |-> "close", conn |-> c]

\* C5: under every interleaving of opens, closes and follow-ups the store holds
\* exactly the transports inserted and not yet deleted, each under its own id,
\* and no follow-up is forwarded to a transport whose close has been processed.
C5_NoLostUpdateNoUseAfterDelete ==
    /\ DOMAIN sseTransports = {sse[c].sessionId : c \in OpenConns}
    /\ \A c \in OpenConns : sseTransports[sse[c].sessionId] = c
    /\ (last.op = "post" /\ last.to # 0) => (~last.toClosed /\ last.wasKey /\ ~last.stale)

\* A follow-up was forwarded to one session while the other had been opened
\* and closed before it.
C5_ForwardedAfterOtherClosed ==
    /\ last.op = "post"
    /\ last.to # 0
    /\ \E c \in Conns : c # last.to /\ sse[c].sock = "closed"

\* C7: when the upstream answers a tool call of a session with 429, the result
\* delivered on the stream is a tool error whose text says "Rate limited", and
\* the session is still in the store.
C7_RateLimitDeliveredAsToolError ==
    (last.op = "deliver" /\ last.answer.kind = "http" /\ last.answer.status = 429)
        => /\ last.result.isError
           /\ ~last.result.thrown
           /\ Contains(last.result.text, "Rate limited; retry later")
           /\ sse[last.conn].sessionId \in DOMAIN sseTransports
           /\ sseTransports[sse[last.conn].sessionId] = last.conn

\* A 429 answer was delivered on an open stream.
C7_RateLimitDelivered ==
    /\ last.op = "deliver"
    /\ last.answer.kind = "http"
    /\ last.answer.status = 429
    /\ last.result.isError
    /\ sse[last.conn].sock = "open"

\* An upstream answer that makes the client throw instead of return.
Failing(resp) == Request(clickupToken, resp).tag # "ok"

\* The tool handler of exchange x finishes in this step while the connection
\* is open.
RespondStep(x) ==
    st[x].pc = "pending" /\ st'[x].pc = "done" /\ st[x].sock = "open"

\* C6: a failure of the upstream call inside a tool handler never escapes the
\* handler: over a session the stream receives a result flagged isError and
\* the session stays in the store; over a stateless exchange the response is
\* the ordinary result envelope, under the request's id, carrying that result.
C6_HandlerFailureBecomesToolError ==
    /\ []((last.op = "deliver" /\ Failing(last.answer))
            => /\ last.result.isError
               /\ ~last.result.thrown
               /\ sse[last.conn].sessionId \in DOMAIN sseTransports
               /\ sseTransports[sse[last.conn].sessionId] = last.conn)
    /\ [][\A x \in Exchanges : (RespondStep(x) /\ Failing(st'[x].answer))
            => /\ st'[x].threw = "no"
               /\ Len(st'[x].written) = 1
               /\ st'[x].written[1].kind = "result"
               /\ st'[x].written[1].id = st[x].rpc.id
               /\ st'[x].written[1].result.isError
               /\ ~st'[x].written[1].result.thrown]_vars

\* A failed upstream call was delivered on a stream as a tool error after a
\* stateless exchange had ended with a tool error of its own.
C6_FailuresDeliveredOnBothTransports ==
    /\ last.op = "deliver"
    /\ last.answer.kind = "network"
    /\ last.result.isError
    /\ \E x \in Exchanges :
         /\ st[x].pc = "done"
         /\ st[x].threw = "no"
         /\ Failing(st[x].answer)
         /\ Len(st[x].written) = 1
         /\ st[x].written[1].result.isError

\* The exchanges whose handler threw before anything was written.
ThrewBeforeBytes(x) == st[x].pc = "done" /\ st[x].threw \in {"connect", "before"}

C9_CatchWritesOnlyBeforeHeaders ==
    \A x \in Exchanges :
        /\ ThrewBeforeBytes(x) =>
             /\ st[x].written = <<[kind |-> "error", http |-> 500, code |-> -32603,
                                   message |-> "Internal server error",
                                   id |-> NullId, result |-> NoResult]>>
             /\ st[x].logged = 1
        /\ (st[x].pc = "done" /\ st[x].threw = "after") =>
             /\ st[x].written = <<PartialBytes>>
             /\ st[x].logged = 1

\* handleRequest rejected after the transport had written to the response.
C9_ThrewAfterBytes ==
    \E x \in Exchanges :
        /\ st[x].pc = "done"
        /\ st[x].threw = "after"
        /\ st[x].written = <<PartialBytes>>
        /\ st[x].logged = 1

\* A task lookup that reached the upstream and was answered with status s.
LookupAnswered(s) ==
    /\ last.op = "tool"
    /\ last.tool = "get_clickup_task"
    /\ last.calls = 1
    /\ last.answer.kind = "http"
    /\ last.answer.status = s

GenericNotFound == ToolResultError(<<"Task not found or invalid task_id">>)

C11_CredentialNeverInResult ==
    (last.op = "tool" /\ Trim(clickupToken) # "") =>
        /\ ~Contains(last.result.text, Trim(clickupToken))
        /\ (last.calls = 1 /\ last.answer.kind = "http" /\ last.answer.status = 401)
             => /\ last.result.isError
                /\ Contains(last.result.text, "ClickUp token invalid or expired")

\* The "no credential configured" error of the adapter.
NoTokenError == ClickUpApiError(<<"CLICKUP_TOKEN is not set">>, 0, "NO_TOKEN")

\* A tool call made while the credential is unset, empty or blank.
CallWithoutCredential == last.op = "tool" /\ Trim(clickupToken) = ""

\* C12 as stated: without a configured credential every adapter operation
\* fails with the "no credential configured" error, status code 0, and no
\* network call is attempted.
C12_EveryOperationFailsNoToken ==
    CallWithoutCredential => (last.out = NoTokenError /\ last.calls = 0)

\* C12, amended: without a configured credential no adapter operation attempts
\* a network call, and every operation fails with a typed error: the "no
\* credential configured" error with status code 0, except that getTask given
\* a blank task id fails on its own argument check first, with status 400.
C12_NoCallWithoutCredential ==
    CallWithoutCredential =>
        /\ last.calls = 0
        /\ last.out.tag = "ClickUpApiError"
        /\ IF last.out.code = "INVALID_INPUT"
           THEN /\ Trim(last.args.id) = ""
                /\ last.out.statusCode = 400
                /\ last.tool \in {"get_clickup_task", "get_clickup_task_context",
                                  "get_clickup_subtasks"}
           ELSE last.out = NoTokenError

\* A tool was called with a whitespace-only credential and failed for it.
C12_BlankCredentialCall ==
    /\ last.op = "tool"
    /\ clickupToken = " "
    /\ last.out = NoTokenError
    /\ last.calls = 0
    /\ last.result = ToolResultError(<<"CLICKUP_TOKEN is not set">>)

\* A tool call whose request reached the upstream and got a non-2xx answer.
NonOkAnswered ==
    /\ last.op = "tool"
    /\ last.calls = 1
    /\ last.answer.kind = "http"
    /\ (last.answer.status < 200 \/ last.answer.status > 299)

\* C13: for every non-2xx answer the adapter throws the typed error whose
\* status code is the HTTP status and whose message is the fixed text for 401,
\* 403 and 429, and otherwise the status, the reason phrase and, when the body
\* is not empty, at most its first 200 characters.
C13_NonOkBecomesTypedError ==
    NonOkAnswered =>
        LET a == last.answer
            msg == last.out.message
            head == <<"ClickUp API error: ", ToString(a.status), " ", a.statusText>>
        IN
        /\ last.out.tag = "ClickUpApiError"
        /\ last.out.statusCode = a.status
        /\ CASE a.status = 401 -> msg = <<"ClickUp token invalid or expired">>
             [] a.status = 403 -> msg = <<"No access to this resource">>
             [] a.status = 429 -> msg = <<"Rate limited; retry later">>
             [] OTHER ->
                  /\ Len(msg) >= Len(head)
                  /\ SubSeq(msg, 1, Len(head)) = head
                  /\ IF a.body = <<>> THEN msg = head
                     ELSE /\ msg[Len(head) + 1] = " - "
                          /\ Len(msg) - Len(head) - 1 <= 200
                          /\ Len(msg) - Len(head) - 1 <= Len(a.body)
                          /\ (Len(a.body) <= 200 => Len(msg) - Len(head) - 1 = Len(a.body))
                          /\ (Len(a.body) > 200 => Len(msg) - Len(head) - 1 = 200)
                          /\ \A i \in 1..(Len(msg) - Len(head) - 1) :
                               msg[Len(head) + 1 + i] = a.body[i]

\* An error body longer than 200 characters was cut to its first 200.
C13_LongBodyTruncated ==
    /\ NonOkAnswered
    /\ Len(last.answer.body) > 200
    /\ Len(last.out.message) = 4 + 1 + 200
    /\ last.out.statusCode = 503

\* A tool call whose request reached the upstream and got a 2xx answer.
OkAnswered ==
    /\ last.op = "tool"
    /\ last.calls = 1
    /\ last.answer.kind = "http"
    /\ last.answer.status >= 200
    /\ last.answer.status <= 299

\* C14: for every 2xx answer the adapter returns without error: the explicit
\* "no value" when the status is 204 or the body is empty, the decoded JSON
\* body otherwise.
C14_OkAnswerReturns ==
    OkAnswered =>
        /\ last.out.tag = "ok"
        /\ IF last.answer.status = 204 \/ last.answer.body = <<>>
           THEN last.out.value = "undefined"
           ELSE last.out.value = last.answer.json

\* A tool call whose adapter operation got as far as the fetch of request:
\* it failed neither on the credential nor on its own argument check.
RequestReached ==
    last.op = "tool" /\ last.out.code \notin {"NO_TOKEN", "INVALID_INPUT"}

\* C15: a request of the adapter issues exactly one HTTP call whatever the
\* upstream answers (and none when it fails before the fetch), and a 429 or
\* 5xx answer is returned as a tool error after that single call.
C15_OneCallNoRetry ==
    last.op = "tool" =>
        /\ last.calls = (IF RequestReached THEN 1 ELSE 0)
        /\ (/\ RequestReached
            /\ last.answer.kind = "http"
            /\ (last.answer.status = 429 \/ last.answer.status >= 500))
             => /\ last.result.isError
                /\ ~last.result.thrown
                /\ last.result = ToolResultError(last.out.message)

\* A 500 answer came back as a tool error after one call.
C15_ServerErrorSurfaced ==
    /\ RequestReached
    /\ last.answer.kind = "http"
    /\ last.answer.status = 500
    /\ last.calls = 1
    /\ last.result.isError

\* C16: a process started without the credential never reaches the listening
\* state.
C16_NoListenWithoutCredential ==
    Trim(clickupToken) = "" => proc # "listening"

\* The parent lookup of a create-subtask call succeeded and yielded a list.
LookupYieldedList ==
    /\ Request(clickupToken, last.lookup).tag = "ok"
    /\ Request(clickupToken, last.lookup).value # "undefined"
    /\ last.hasList

\* C17: create_clickup_subtask issues the create only after the parent lookup
\* succeeded and yielded a list; when either step fails the caller gets one
\* tool error, and that error tells the step apart: no failure of the lookup
\* gives the result that some failure of the create gives.
C17_SubtaskErrorNamesStep ==
    last.op = "subtask" =>
        /\ last.out.calls = 2 => LookupYieldedList
        /\ last.out.tag # "ok" => (last.result.isError /\ ~last.result.thrown)
        /\ (last.out.tag # "ok" /\ last.out.calls = 1) =>
             \A createResp \in SubtaskAnswers :
                LET other == CreateSubtask(last.args, clickupToken,
                                 Http(200, "OK", <<"{", "}">>, TRUE, FALSE), TRUE,
                                 createResp)
                IN (other.tag # "ok" /\ other.calls = 2) =>
                      SubtaskHandler(last.args, clickupToken,
                          Http(200, "OK", <<"{", "}">>, TRUE, FALSE), TRUE, createResp)
                        # last.result

\* The names createMcpServer registers, read off the registration list.
Registered(name) == \E i \in 1..Len(ToolList) : ToolList[i] = name

C20_OneResponseWithRequestId ==
    /\ (last.op = "post" /\ last.outcome # "accepted") =>
          (last.envelope.http # 0 /\ last.envelope.id \in RpcIds)
    /\ last.op = "deliver" => last.id \in RpcIds
    /\ \A x \in Exchanges :
         (st[x].pc = "done" /\ (st[x].threw # "no" \/ st[x].written # <<>>)) =>
            /\ Len(st[x].written) = 1
            /\ st[x].written[1].kind \in {"result", "error"}
            /\ st[x].written[1].id = st[x].rpc.id

\* The open connection whose transport was created with session id q.
OwnerOf(q) == {c \in OpenConns : sse[c].sessionId = q}

\* A handler of session c finishes and its result is written on a stream.
DeliverStep(c) ==
    /\ last'.op = "deliver"
    /\ last'.conn = c
    /\ inflight' # inflight

\* C21: a follow-up whose session id is in the store is handed to the
\* transport of exactly that session (and to no other), its own response
\* carries no result (202, or the transport's refusal when its stream never
\* opened), and the result of the request is delivered on the open stream of
\* that same session.
C21_ForwardedToOwnSessionOnly ==
    /\ [][(PostStep /\ last'.wasKey) =>
            \E c \in OwnerOf(last'.sessionId) :
               /\ OwnerOf(last'.sessionId) = {c}
               /\ last'.outcome \in {"accepted", "notEstablished"}
               /\ last'.outcome = "accepted" <=> sse[c].established
               /\ last'.outcome = "accepted" =>
                    (last'.to = c /\ last'.envelope.http = 202
                       /\ \E rpc \in Rpcs : inflight'[c] = inflight[c] \cup {rpc})
               /\ last'.outcome = "notEstablished" => inflight' = inflight
               /\ \A d \in Conns \ {c} : inflight'[d] = inflight[d]]_vars
    /\ [][\A c \in Conns : DeliverStep(c) =>
            /\ [id |-> last'.id, tool |-> last'.tool] \in inflight[c]
            /\ inflight'[c] = inflight[c] \ {[id |-> last'.id, tool |-> last'.tool]}
            /\ \A d \in Conns \ {c} : inflight'[d] = inflight[d]
            /\ sse[c].sock = "open"
            /\ sse[c].sessionId \in DOMAIN sseTransports]_vars

\* The second of two open sessions got the result of its request on its stream.
C21_DeliveredOnSecondSession ==
    /\ last.op = "deliver"
    /\ last.conn = 2
    /\ sse[1].sock = "open"
    /\ sse[1].established
    /\ sse[2].sock = "open"

\* Exchanges whose server and transport have been constructed.
Begun == {x \in Exchanges : st[x].pc # "idle"}

\* C22: every stateless call has its own server and its own transport, neither
\* shared with another call, and its transport has no session id; a step of a
\* stateless call leaves the session store and every session as they were;
\* and it changes the state of no other call.
C22_StatelessCallsShareNothing ==
    /\ [](\A x \in Begun :
            /\ st[x].sessionId = NoSessionId
            /\ st[x].server # st[x].transport
            /\ \A y \in Begun \ {x} :
                  /\ st[x].server \notin {st[y].server, st[y].transport}
                  /\ st[x].transport \notin {st[y].server, st[y].transport})
    /\ [][st' # st => UNCHANGED <<sseTransports, sse, inflight, created>>]_vars
    /\ [][\A x \in Exchanges :
            st'[x] # st[x] => \A y \in Exchanges \ {x} : st'[y] = st[y]]_vars

\* Two stateless calls are being handled at once while a session is in the store.
C22_TwoCallsDuringASession ==
    /\ st[1].pc \in {"handling", "pending"}
    /\ st[2].pc \in {"handling", "pending"}
    /\ \E c \in Conns : sse[c].sessionId \in DOMAIN sseTransports

\* C23: for every stateless exchange, once its connection has closed the
\* server and the transport constructed for it are eventually both closed,
\* whichever way the handler was left.
C23_TeardownOnEveryExitPath ==
    \A x \in Exchanges :
        (st[x].sock = "ended") ~> (st[x].serverClosed /\ st[x].transportClosed)

\* A pending handler of session c finishes.
FinishStep(c) == inflight'[c] # inflight[c] /\ inflight'[c] \subseteq inflight[c]

\* C24: when the connection of a session closes while a call of the session
\* is in flight, the call is not aborted (it stays pending and finishes
\* later); when it finishes its result is discarded, written on the stream of
\* no session; and its completion leaves the session store, without the
\* closed session, as it was.
C24_LateResultDiscarded ==
    /\ [][sse' # sse => inflight' = inflight]_vars
    /\ [](\A c \in Conns : \A rpc \in inflight[c] :
             \A resp \in UpstreamAnswers : ENABLED UpstreamRespond(c, rpc, resp))
    /\ [][\A c \in Conns : (FinishStep(c) /\ sse[c].sock # "open") =>
            /\ last' = [op |-> "discard", conn |-> c]
            /\ sseTransports' = sseTransports
            /\ sse[c].sock = "closed" => sse[c].sessionId \notin DOMAIN sseTransports'
            /\ sse' = sse]_vars

\* The call of a closed session finished and was discarded while another
\* session had its stream open.
C24_DiscardedWhileOtherOpen ==
    /\ last.op = "discard"
    /\ sse[last.conn].sock = "closed"
    /\ sse[last.conn].transportClosed
    /\ \E d \in Conns \ {last.conn} : StreamWritable(sse[d])

\* Calls of createMcpServer so far: one per streaming connection opened and
\* one per stateless call begun.
RegistryBuilds == created + Cardinality(Begun)

\* The connections that have a server.
Served == {sse[c] : c \in {d \in Conns : sse[d].pc # "idle"}} \cup {st[x] : x \in Begun}

NotYetClosed == {c \in Conns : sse[c].pc # "idle" /\ sse[c].sock # "closed"}

\* C26: the keys of the session store are exactly the ids of the streaming
\* connections opened and not yet close-handled; a connection is in the store
\* with its close handler registered from the step that opens it, whether or
\* not the connect that follows succeeds; so whenever a stream begins and
\* tells the client its session id, that id is in the store.
C26_StoreKeysAreLiveSessions ==
    /\ [](DOMAIN sseTransports = {sse[c].sessionId : c \in NotYetClosed})
    /\ [](\A c \in NotYetClosed : sse[c].closeHandler)
    /\ [][\A c \in Conns : (sse[c].pc = "idle" /\ sse'[c].pc # "idle") =>
            /\ sse'[c].sessionId \notin DOMAIN sseTransports
            /\ sse'[c].sessionId \in DOMAIN sseTransports'
            /\ sse'[c].closeHandler]_vars
    /\ [][\A c \in Conns : (~sse[c].established /\ sse'[c].established) =>
            sse'[c].sessionId \in DOMAIN sseTransports']_vars

\* A session whose connect was rejected, its connection ended but not yet
\* close-handled, is in the store next to a streaming one.
C26_RejectedSessionStored ==
    /\ sse[1].pc = "connectRejected" /\ sse[1].sock = "ended"
    /\ sse[2].pc = "streaming" /\ sse[2].established
    /\ DOMAIN sseTransports = {sse[1].sessionId, sse[2].sessionId}

\* The event of a finished get_clickup_tasks_by_list_name call made with a
\* usable credential.
ListsRan == last.op = "lists" /\ GetToken(clickupToken).tag = "ok"

\* The answers the upstream holds for the calls of getAllListsInSpace, in the
\* order the calls are to be issued, and the paths of those calls; the
\* folders are known only from a folders answer that carries them.
FoldersOf(net) ==
    IF ResOk(net.folders.status) /\ net.folders.kind = "http"
    THEN net.folders.json.folders ELSE <<>>

PlannedAnswers(net) ==
    <<net.folderless, net.folders>>
        \o [i \in 1..Len(FoldersOf(net)) |-> net.lists[FoldersOf(net)[i].id]]

PlannedPaths(spaceId, net) ==
    <<FolderlessPath(spaceId), FoldersPath(spaceId)>>
        \o [i \in 1..Len(FoldersOf(net)) |-> ListsPath(FoldersOf(net)[i].id)]

\* An answer that makes the call succeed with a body.
Good(resp) == resp.kind = "http" /\ ResOk(resp.status) /\ resp.status # 204
                /\ ~resp.contentLength0 /\ resp.jsonValid

\* The lists of the planned answers from the k-th on, flattened.
RECURSIVE ListsFrom(_, _)
ListsFrom(answers, k) ==
    IF k > Len(answers) THEN <<>>
    ELSE answers[k].json.lists \o ListsFrom(answers, k + 1)

\* C28: getAllListsInSpace issues its calls in sequence: folderless lists,
\* folders, then one list call per folder in folder order.  When all succeed
\* these are 2 + number-of-folders calls and it returns the folderless lists
\* followed by the lists of each folder in that order.  When one fails, the
\* calls issued are those up to and including the failed one, the error
\* raised is the error of that call, and no list is returned.
C28_SequentialCallsNoPartialResult ==
    ListsRan =>
        LET net == last.net
            all == last.all
            answers == PlannedAnswers(net)
            paths == PlannedPaths(last.args.space_id, net)
            bad == {k \in 1..Len(answers) : ~Good(answers[k])}
        IN
        IF bad = {}
        THEN /\ all.out.tag = "ok"
             /\ all.trace = paths
             /\ Len(all.trace) = 2 + Len(net.folders.json.folders)
             /\ [i \in 1..Len(all.out.value) |-> all.out.value[i].list_id]
                  = [i \in 1..Len(ListsFrom(answers, 1)) |-> ListsFrom(answers, 1)[i].id]
             /\ \A i \in 1..Len(all.out.value) :
                  all.out.value[i].folder_id = ""
                      <=> i <= Len(net.folderless.json.lists)
        ELSE LET k == CHOOSE i \in bad : \A j \in bad : i <= j IN
             /\ all.out.tag # "ok"
             /\ all.out.value = "undefined"
             /\ all.trace = SubSeq(paths, 1, k)
             /\ (answers[k].kind = "network" \/ ~ResOk(answers[k].status))
                    => all.out = Request(clickupToken, answers[k])

\* All four calls for a space with two folders succeeded and the five lists
\* came back, folderless ones first.
C28_TwoFoldersListed ==
    /\ ListsRan
    /\ last.all.out.tag = "ok"
    /\ Len(last.all.trace) = 4
    /\ Len(last.all.out.value) = 5
    /\ last.all.out.value[1].folder_id = "" /\ last.all.out.value[5].folder_id = "f2"

\* Whether the characters of part occur in text as one run.
IsInfix(part, text) ==
    \E k \in 0..(Len(text) - Len(part)) : SubSeq(text, k + 1, k + Len(part)) = part

\* The rows getAllListsInSpace returned to the handler.
RowsSeen == last.all.out.value

\* Rows whose name equals the requested one once the requested name is
\* trimmed and both are lower-cased; rows equal to it once both are trimmed.
MatchingRows ==
    {i \in 1..Len(RowsSeen) :
        ToLowerCase(RowsSeen[i].list_name) = ToLowerCase(TrimChars(last.args.list_name))}

MatchingRowsBothTrimmed ==
    {i \in 1..Len(RowsSeen) :
        ToLowerCase(TrimChars(RowsSeen[i].list_name))
            = ToLowerCase(TrimChars(last.args.list_name))}

\* The handler resolved the first of the rows in matching, or reported that
\* there is none without asking for tasks.
ResolvesFirstOf(matching) ==
    IF matching = {}
    THEN /\ last.run.found = ""
         /\ last.run.result.isError
         /\ last.run.trace = last.all.trace
         /\ \A i \in 1..Len(RowsSeen) :
              IsInfix(RowsSeen[i].list_name, last.run.result.text)
    ELSE LET first == CHOOSE i \in matching : \A k \in matching : i <= k IN
         /\ last.run.found = RowsSeen[first].list_id
         /\ last.run.trace = last.all.trace \o <<TasksPath(RowsSeen[first].list_id)>>
         /\ (\E i \in matching : RowsSeen[i].folder_id = "")
                => RowsSeen[first].folder_id = ""

\* C27 (as the code has it): get_clickup_tasks_by_list_name trims the
\* requested name and compares it, ignoring case, with the names of the lists
\* as the upstream gave them (not trimmed); it takes the first match in the
\* order folderless lists, then lists folder by folder; with no match it
\* returns a tool error naming the available lists and asks for no tasks.
C27_FirstMatchOfTrimmedRequest ==
    (ListsRan /\ last.all.out.tag = "ok") => ResolvesFirstOf(MatchingRows)

\* A name written in other case and with blanks around it resolved to the
\* folderless list although a list in a folder has the same name.
C27_FolderlessMatchWins ==
    /\ ListsRan /\ last.all.out.tag = "ok"
    /\ last.args.list_name = <<" ", "A", "B", " ">>
    /\ last.run.found = "l1"
    /\ \E i \in MatchingRows : RowsSeen[i].list_id = "l2"
    /\ ~last.run.result.isError

\* C27 (as stated): the names are compared trimmed on both sides.
C27_BothNamesTrimmed ==
    (ListsRan /\ last.all.out.tag = "ok") => ResolvesFirstOf(MatchingRowsBothTrimmed)

\* The keys of the body of the request an update issued.
SentKeys ==
    {last.sent[1].body[i][1] : i \in 1..Len(last.sent[1].body)}

\* C29: the body update_clickup_task sends holds exactly the fields among
\* name, description, status and priority that the caller supplied, each once
\* and with the caller's value, empty values included; the task id and the
\* fields the caller omitted are not in it.
C29_BodyHasExactlySuppliedFields ==
    (last.op = "update" /\ last.sent # <<>>) =>
        /\ Len(last.sent) = 1
        /\ last.sent[1].method = "PUT"
        /\ last.sent[1].path = "/task/" \o last.args["task_id"]
        /\ SentKeys = DOMAIN last.args \ {"task_id"}
        /\ Len(last.sent[1].body) = Cardinality(SentKeys)
        /\ \A i \in 1..Len(last.sent[1].body) :
              last.sent[1].body[i][2] = last.args[last.sent[1].body[i][1]]

\* An update supplying an empty name and a priority of 0 and omitting the
\* description and the status was sent.
C29_EmptyNameSent ==
    /\ last.op = "update" /\ last.sent # <<>>
    /\ DOMAIN last.args = {"task_id", "name", "priority"}
    /\ last.args["name"] = "" /\ last.args["priority"] = "0"
    /\ last.sent[1].body = << <<"name", "">>, <<"priority", "0">> >>

\* A typed error of the local checks.
InvalidInput(out) ==
    out.tag = "ClickUpApiError" /\ out.statusCode = 400 /\ out.code = "INVALID_INPUT"

\* The lookup of the parent came back with a task.
ParentFound == Good(last.lookup)

\* The steps of createSubtask in their order, for a finished call;
\* typedLookup says whether every failed lookup has to raise a typed error.
SubtaskStepsInOrder(typedLookup) ==
    LET a == last.args
        out == last.out
        sent == last.sent
        lookup == [method |-> "GET", path |-> "/task/" \o Trim(a.parent), body |-> <<>>]
    IN
    IF Trim(a.parent) = ""
    THEN InvalidInput(out) /\ Contains(out.message, "parent_task_id is required and must be non-empty")
            /\ sent = <<>>
    ELSE IF Trim(a.name) = ""
    THEN InvalidInput(out) /\ Contains(out.message, "name is required and must be non-empty")
            /\ sent = <<>>
    ELSE IF GetToken(clickupToken).tag # "ok"
    THEN out.tag = "ClickUpApiError" /\ out.code = "NO_TOKEN" /\ sent = <<>>
    ELSE IF ~ParentFound
    THEN /\ sent = <<lookup>>
         /\ out.tag # "ok"
         /\ (last.lookup.kind = "http" /\ ~ResOk(last.lookup.status)) =>
               (out.tag = "ClickUpApiError" /\ out.statusCode = last.lookup.status)
         /\ typedLookup => out.tag = "ClickUpApiError"
    ELSE IF ~last.hasList
    THEN /\ sent = <<lookup>>
         /\ out.tag = "ClickUpApiError" /\ out.statusCode = 400 /\ out.code = "NO_LIST"
    ELSE /\ Len(sent) = 2
         /\ sent[1] = lookup
         /\ sent[2].method = "POST"
         /\ sent[2].path = "/list/" \o ToString(ParentListId) \o "/task"
         /\ Contains(sent[2].body, <<"parent", Trim(a.parent)>>)
         /\ Contains(sent[2].body, <<"name", Trim(a.name)>>)
         /\ out = [Request(clickupToken, last.create) EXCEPT !.calls = 2]

\* C30 (as the code has it): createSubtask checks, in this order, the parent
\* id, the name, the parent lookup and the parent's list.  A blank parent id
\* or name raises a typed 400 error and no request is made; a lookup the
\* upstream refuses raises the typed error of that status, while a lookup
\* that fails in the network or comes back without a body raises an untyped
\* error; a parent without a list raises a typed 400 error; in each case no
\* create is requested.  Otherwise the subtask is created in the parent's
\* list with parent set to the trimmed parent id.
C30_SubtaskChecksInOrder ==
    last.op = "subtask" => SubtaskStepsInOrder(FALSE)

\* A subtask was created for a parent id given with blanks around it.
C30_CreatedUnderTrimmedParent ==
    /\ last.op = "subtask"
    /\ last.args.parent = " 86c6p1ach "
    /\ last.out.tag = "ok"
    /\ Len(last.sent) = 2
    /\ Contains(last.sent[2].body, <<"parent", "86c6p1ach">>)

\* C30 (as stated): every failed check raises a typed error.
C30_EveryFailedCheckTyped ==
    last.op = "subtask" => SubtaskStepsInOrder(TRUE)

====
